---- MODULE Spec2Model ----
(***************************************************************************)
(* The command gateway of src-tauri/src/main.rs: three Tauri commands      *)
(* (start_simulation, stop_simulation, get_world_state), the managed       *)
(* SimulationState, and the child process get_world_state shells out to.   *)
(*                                                                         *)
(* A Rust String is modelled by its bytes (a sequence of 0..255), so that  *)
(* String::from_utf8, str::trim and the two mock_data literals are         *)
(* computed byte by byte and not assumed.                                  *)
(***************************************************************************)
EXTENDS Integers, Sequences, FiniteSets, TLC

VARIABLES
    cwd,        \* what env::current_dir() finds: the process's working directory
    running,    \* the bool inside SimulationState.running (a Mutex<bool>)
    lockCount,  \* how many times SimulationState.running has been locked
    log,        \* the lines println! has written to the process's stdout
    pc,         \* per invoking thread: where it is inside a command
    op,         \* per invoking thread: the command it invoked last
    output,     \* per invoking thread: what Command::output() gave its last call
    ret         \* per invoking thread: the Result its last command returned

vars == <<cwd, running, lockCount, log, pc, op, output, ret>>

(***************************************************************************)
(* Bounds.                                                                 *)
(***************************************************************************)
\* Lines of log after which no further start/stop is explored.
MaxLog == 2
\* Longest child stdout (in bytes) the byte-level specification enumerates.
MaxBytes == 3

\* The threads the runtime dispatches commands on.
Callers == {"t1", "t2"}

(***************************************************************************)
(* Strings as bytes.                                                       *)
(***************************************************************************)
Ascii32to95 == " !\"#$%&'()*+,-./0123456789:;<=>?@ABCDEFGHIJKLMNOPQRSTUVWXYZ[\\]^_"
Ascii97to126 == "abcdefghijklmnopqrstuvwxyz{|}~"

\* The byte of a one-character ASCII string.
Ord(ch) ==
    IF ch = "\n" THEN 10
    ELSE IF \E k \in 1..Len(Ascii32to95) : SubSeq(Ascii32to95, k, k) = ch
         THEN 31 + (CHOOSE k \in 1..Len(Ascii32to95) : SubSeq(Ascii32to95, k, k) = ch)
         ELSE 96 + (CHOOSE k \in 1..Len(Ascii97to126) : SubSeq(Ascii97to126, k, k) = ch)

\* The UTF-8 bytes of an ASCII string literal (what .to_string() holds).
Bytes(str) == [i \in 1..Len(str) |-> Ord(SubSeq(str, i, i))]

\* Result<String, String>.
Ok(v) == [kind |-> "Ok", val |-> v]
Err(v) == [kind |-> "Err", val |-> v]
NoResult == [kind |-> "none", val |-> <<>>]

(***************************************************************************)
(* String::from_utf8 (line 37): the bytes are accepted iff they are        *)
(* well-formed UTF-8 (shortest form, no surrogates, at most U+10FFFF).     *)
(***************************************************************************)
\* A String's bytes, and a sequence of chars (code points).
ByteStrings == Seq(0..255)
CharStrings == Seq(Nat)

IsCont(b) == b \in 128..191

\* Bytes in the character that starts with lead byte b; 0 for no lead byte.
Utf8Width(b) ==
    IF b < 128 THEN 1
    ELSE IF b \in 194..223 THEN 2
    ELSE IF b \in 224..239 THEN 3
    ELSE IF b \in 240..244 THEN 4
    ELSE 0

\* The range the second byte of a 3- or 4-byte character must lie in.
SecondRange(b) ==
    IF b = 224 THEN 160..191
    ELSE IF b = 237 THEN 128..159
    ELSE IF b = 240 THEN 144..191
    ELSE IF b = 244 THEN 128..143
    ELSE 128..191

CharValidAt(v, i) ==
    LET w == Utf8Width(v[i]) IN
    /\ w > 0
    /\ i + w - 1 <= Len(v)
    /\ w >= 2 => IF w = 2 THEN IsCont(v[i + 1]) ELSE v[i + 1] \in SecondRange(v[i])
    /\ \A k \in 2..(w - 1) : IsCont(v[i + k])

\* The bytes from index i on are a run of well-formed characters.
Utf8ValidFrom(v, i) ==
    LET valid[k \in 1..(Len(v) + 1)] ==
            IF k > Len(v) THEN TRUE
            ELSE CharValidAt(v, k) /\ valid[k + Utf8Width(v[k])]
    IN  valid[i]

from_utf8[v \in ByteStrings] == IF Utf8ValidFrom(v, 1) THEN Ok(v) ELSE Err(v)

\* "{}".to_string() (line 38).
EmptyObject == Bytes("{}")

\* .unwrap_or_else(|_| "{}".to_string()) (line 38).
unwrap_or_else(r) == IF r.kind = "Ok" THEN r.val ELSE EmptyObject

(***************************************************************************)
(* str::trim and is_empty (line 40), over the chars of a valid String.     *)
(***************************************************************************)
CodePointAt(v, i) ==
    LET w == Utf8Width(v[i]) IN
    IF w = 1 THEN v[i]
    ELSE IF w = 2 THEN (v[i] - 192) * 64 + (v[i + 1] - 128)
    ELSE IF w = 3 THEN (v[i] - 224) * 4096 + (v[i + 1] - 128) * 64 + (v[i + 2] - 128)
    ELSE (v[i] - 240) * 262144 + (v[i + 1] - 128) * 4096
         + (v[i + 2] - 128) * 64 + (v[i + 3] - 128)

\* The chars (code points) of a String.
chars[s \in ByteStrings] ==
    LET rest[k \in 1..(Len(s) + 1)] ==
            IF k > Len(s) THEN <<>>
            ELSE <<CodePointAt(s, k)>> \o rest[k + Utf8Width(s[k])]
    IN  rest[1]

\* char::is_whitespace: the Unicode White_Space property.
is_whitespace(c) ==
    \/ c \in 9..13
    \/ c \in {32, 133, 160, 5760}
    \/ c \in 8192..8202
    \/ c \in {8232, 8233, 8239, 8287, 12288}

\* The indices of the chars that are not whitespace.
NonWhitespace(cs) == {i \in 1..Len(cs) : ~is_whitespace(cs[i])}

\* From the first char that is not whitespace on.
trim_start[cs \in CharStrings] ==
    LET keep == NonWhitespace(cs) IN
    IF keep = {} THEN <<>>
    ELSE SubSeq(cs, CHOOSE i \in keep : \A j \in keep : i <= j, Len(cs))

\* Up to the last char that is not whitespace.
trim_end[cs \in CharStrings] ==
    LET keep == NonWhitespace(cs) IN
    IF keep = {} THEN <<>>
    ELSE SubSeq(cs, 1, CHOOSE i \in keep : \A j \in keep : i >= j)

trim[cs \in CharStrings] == trim_end[trim_start[cs]]

is_empty(cs) == Len(cs) = 0

(***************************************************************************)
(* The two mock_data raw-string literals, as written in the source.        *)
(***************************************************************************)
\* Lines 44-52, in the Ok(result) arm.
mock_data_ok ==
    "{\n"
    \o "                    \"currentDay\": 1,\n"
    \o "                    \"currentHour\": 12,\n"
    \o "                    \"npcs\": [\n"
    \o "                        {\"name\": \"Marcus\", \"needFood\": 45, \"needSafety\": 80},\n"
    \o "                        {\"name\": \"Sarah\", \"needFood\": 90, \"needSafety\": 95},\n"
    \o "                        {\"name\": \"Emma\", \"needFood\": 70, \"needSafety\": 75}\n"
    \o "                    ]\n"
    \o "                }"

\* Lines 58-66, in the Err(_) arm.
mock_data_err ==
    "{\n"
    \o "                \"currentDay\": 1,\n"
    \o "                \"currentHour\": 12,\n"
    \o "                \"npcs\": [\n"
    \o "                    {\"name\": \"Marcus\", \"needFood\": 45, \"needSafety\": 80},\n"
    \o "                    {\"name\": \"Sarah\", \"needFood\": 90, \"needSafety\": 95},\n"
    \o "                    {\"name\": \"Emma\", \"needFood\": 70, \"needSafety\": 75}\n"
    \o "                ]\n"
    \o "            }"

MockOkBytes == Bytes(mock_data_ok)
MockErrBytes == Bytes(mock_data_err)

(***************************************************************************)
(* What Command::output() gives: Err when the launch failed, else the      *)
(* child's collected stdout, stderr and exit code.                         *)
(***************************************************************************)
NoOutput == [launch |-> "none", stdout |-> <<>>, stderr |-> <<>>, code |-> 0]
LaunchFailed == [launch |-> "failed", stdout |-> <<>>, stderr |-> <<>>, code |-> 0]
Exited(out, err, code) == [launch |-> "ok", stdout |-> out, stderr |-> err, code |-> code]

\* The text without the ASCII whitespace at its two ends.
TrimmedBytes(b) ==
    LET keep == {i \in 1..Len(b) : b[i] \notin (9..13) \cup {32}} IN
    IF keep = {} THEN <<>>
    ELSE SubSeq(b, CHOOSE i \in keep : \A j \in keep : i <= j,
                   CHOOSE i \in keep : \A j \in keep : i >= j)

LaunchError == Bytes("Failed to run node")

\* Variant of the match that returns the trimmed text, not the text.
get_world_state_match_trimmed(o) ==
    IF o.launch = "ok"
    THEN LET stdout == unwrap_or_else(from_utf8[o.stdout]) IN
         IF ~is_empty(trim[chars[stdout]])
         THEN Ok(TrimmedBytes(stdout))
         ELSE Ok(MockOkBytes)
    ELSE Ok(MockErrBytes)

\* Variant of the match that hands a launch failure to the caller.
get_world_state_match_propagating(o) ==
    IF o.launch = "ok"
    THEN LET stdout == unwrap_or_else(from_utf8[o.stdout]) IN
         IF ~is_empty(trim[chars[stdout]])
         THEN Ok(stdout)
         ELSE Ok(MockOkBytes)
    ELSE Err(LaunchError)

\* Variant of the match that answers with live data only once a start has
\* been logged.
get_world_state_match_gated(o) ==
    IF o.launch = "ok" /\ \E i \in 1..Len(log) : log[i] = "Starting simulation..."
    THEN LET stdout == unwrap_or_else(from_utf8[o.stdout]) IN
         IF ~is_empty(trim[chars[stdout]])
         THEN Ok(stdout)
         ELSE Ok(MockOkBytes)
    ELSE Ok(MockErrBytes)

\* Variant of the match that takes the child's output only when it exited
\* with status 0.
get_world_state_match_status(o) ==
    IF o.launch = "ok" /\ o.code = 0
    THEN LET stdout == unwrap_or_else(from_utf8[o.stdout]) IN
         IF ~is_empty(trim[chars[stdout]])
         THEN Ok(stdout)
         ELSE Ok(MockOkBytes)
    ELSE Ok(MockErrBytes)

\* The match of lines 35-69.
get_world_state_match(o) ==
    IF o.launch = "ok"
    THEN LET stdout == unwrap_or_else(from_utf8[o.stdout]) IN
         IF ~is_empty(trim[chars[stdout]])
         THEN Ok(stdout)
         ELSE Ok(MockOkBytes)
    ELSE Ok(MockErrBytes)

(***************************************************************************)
(* The environment's choices.                                              *)
(***************************************************************************)
\* env::current_dir() succeeds with a path that has a parent ("nested"),
\* succeeds with the root, which has none ("root"), or fails ("unreadable").
CwdStates == {"nested", "root", "unreadable"}

\* What a child may have written to stdout, in the gateway specification:
\* nothing, whitespace only, JSON, JSON in whitespace, text that is no JSON,
\* a no-break space (U+00A0), and bytes that are not UTF-8.
ChildStdouts ==
    { <<>>,
      Bytes(" \n"),
      Bytes("{\"npcs\":[]}"),
      Bytes(" {}\n"),
      Bytes("oops"),
      <<194, 160>>,
      <<123, 255, 125>> }

ChildStderrs == { <<>>, Bytes("Error: no database\n") }

ExitCodes == {0, 1}

\* The println! lines (14, 23) and the returned messages (18, 24).
StartLine == "Starting simulation..."
StopLine == "Stopping simulation..."
SimulationStarted == Bytes("Simulation started")
SimulationStopped == Bytes("Simulation stopped")

(***************************************************************************)
(* State after construction (main, lines 72-84).                           *)
(***************************************************************************)
Init ==
    /\ cwd \in CwdStates
    /\ running = FALSE
    /\ lockCount = 0
    /\ log = <<>>
    /\ pc = [c \in Callers |-> "idle"]
    /\ op = [c \in Callers |-> "none"]
    /\ output = [c \in Callers |-> NoOutput]
    /\ ret = [c \in Callers |-> NoResult]

(***************************************************************************)
(* The commands.                                                           *)
(***************************************************************************)
AlreadyRunning == Bytes("Simulation already running")
NotRunning == Bytes("Simulation not running")

\* Variant of start_simulation that takes the lock, refuses a second start
\* and sets the flag.
start_simulation_once(c) ==
    /\ pc[c] = "idle"
    /\ Len(log) < MaxLog
    /\ log' = Append(log, StartLine)
    /\ op' = [op EXCEPT ![c] = "start_simulation"]
    /\ output' = [output EXCEPT ![c] = NoOutput]
    /\ lockCount' = lockCount + 1
    /\ running' = TRUE
    /\ ret' = [ret EXCEPT ![c] = IF running THEN Err(AlreadyRunning)
                                 ELSE Ok(SimulationStarted)]
    /\ UNCHANGED <<cwd, pc>>

\* Variant of start_simulation that sets the flag without the lock's count.
start_simulation_flagging(c) ==
    /\ pc[c] = "idle"
    /\ Len(log) < MaxLog
    /\ log' = Append(log, StartLine)
    /\ op' = [op EXCEPT ![c] = "start_simulation"]
    /\ output' = [output EXCEPT ![c] = NoOutput]
    /\ running' = TRUE
    /\ ret' = [ret EXCEPT ![c] = Ok(SimulationStarted)]
    /\ UNCHANGED <<cwd, lockCount, pc>>

\* Lines 12-19.
start_simulation(c) ==
    /\ pc[c] = "idle"
    /\ Len(log) < MaxLog
    /\ log' = Append(log, StartLine)
    /\ op' = [op EXCEPT ![c] = "start_simulation"]
    /\ output' = [output EXCEPT ![c] = NoOutput]
    /\ ret' = [ret EXCEPT ![c] = Ok(SimulationStarted)]
    /\ UNCHANGED <<cwd, running, lockCount, pc>>

\* Variant of stop_simulation that refuses to stop what is not running.
stop_simulation_checked(c) ==
    /\ pc[c] = "idle"
    /\ Len(log) < MaxLog
    /\ log' = Append(log, StopLine)
    /\ op' = [op EXCEPT ![c] = "stop_simulation"]
    /\ output' = [output EXCEPT ![c] = NoOutput]
    /\ ret' = [ret EXCEPT ![c] = IF running THEN Ok(SimulationStopped)
                                 ELSE Err(NotRunning)]
    /\ UNCHANGED <<cwd, running, lockCount, pc>>

\* Lines 21-25.
stop_simulation(c) ==
    /\ pc[c] = "idle"
    /\ Len(log) < MaxLog
    /\ log' = Append(log, StopLine)
    /\ op' = [op EXCEPT ![c] = "stop_simulation"]
    /\ output' = [output EXCEPT ![c] = NoOutput]
    /\ ret' = [ret EXCEPT ![c] = Ok(SimulationStopped)]
    /\ UNCHANGED <<cwd, running, lockCount, pc>>

\* get_world_state up to the launch (lines 30-32): the working directory of
\* the child is env::current_dir().unwrap().parent().unwrap(), which panics
\* when current_dir() fails or the directory has no parent.
GwsCall(c) ==
    /\ pc[c] = "idle"
    /\ pc' = [pc EXCEPT ![c] = IF cwd = "nested" THEN "spawn" ELSE "panicked"]
    /\ op' = [op EXCEPT ![c] = "get_world_state"]
    /\ output' = [output EXCEPT ![c] = NoOutput]
    /\ ret' = [ret EXCEPT ![c] = NoResult]
    /\ UNCHANGED <<cwd, running, lockCount, log>>

\* Command::output() (line 33) launches the child: the launch fails and
\* output() returns Err, or the child runs and output() waits for it.
GwsSpawn(c) ==
    /\ pc[c] = "spawn"
    /\ \/ /\ output' = [output EXCEPT ![c] = LaunchFailed]
          /\ pc' = [pc EXCEPT ![c] = "matching"]
       \/ /\ output' = [output EXCEPT ![c] = Exited(<<>>, <<>>, 0)]
          /\ pc' = [pc EXCEPT ![c] = "waiting"]
    /\ UNCHANGED <<cwd, running, lockCount, log, op, ret>>

\* The child exits; output() returns what it wrote and its exit code.
ChildExit(c) ==
    /\ pc[c] = "waiting"
    /\ \E out \in ChildStdouts, err \in ChildStderrs, code \in ExitCodes :
           output' = [output EXCEPT ![c] = Exited(out, err, code)]
    /\ pc' = [pc EXCEPT ![c] = "matching"]
    /\ UNCHANGED <<cwd, running, lockCount, log, op, ret>>

\* Variant of the return that gives up on a child that is still running.
GwsMatch_timeout(c) ==
    /\ pc[c] \in {"matching", "waiting"}
    /\ ret' = [ret EXCEPT ![c] = IF pc[c] = "waiting" THEN Ok(MockErrBytes)
                                 ELSE get_world_state_match(output[c])]
    /\ pc' = [pc EXCEPT ![c] = "idle"]
    /\ UNCHANGED <<cwd, running, lockCount, log, op, output>>

\* The match on output (lines 35-69) and the return.
GwsMatch(c) ==
    /\ pc[c] = "matching"
    /\ ret' = [ret EXCEPT ![c] = get_world_state_match(output[c])]
    /\ pc' = [pc EXCEPT ![c] = "idle"]
    /\ UNCHANGED <<cwd, running, lockCount, log, op, output>>

Next ==
    \E c \in Callers :
        \/ start_simulation(c)
        \/ stop_simulation(c)
        \/ GwsCall(c)
        \/ GwsSpawn(c)
        \/ ChildExit(c)
        \/ GwsMatch(c)

Spec == Init /\ [][Next]_vars

\* The gateway with the scheduling the runtime and the operating system give:
\* a launch is answered, and a thread whose output() has returned goes on to
\* the match. Nothing makes a child exit.
Fairness ==
    \A c \in Callers : WF_vars(GwsSpawn(c)) /\ WF_vars(GwsMatch(c))

FairSpec == Init /\ [][Next]_vars /\ Fairness

(***************************************************************************)
(* The byte-level specification of the match: one thread is at the match   *)
(* with any output() result whose stdout is at most MaxBytes bytes over    *)
(* ByteAlphabet, and the match is applied.                                 *)
(***************************************************************************)
\* Space, newline, '{', and the bytes of U+00A0 (C2 A0, whitespace),
\* U+00A9 (C2 A9), U+2000 (E2 80 80, whitespace), U+2020 (E2 80 A0),
\* with FF, which no UTF-8 text holds.
ByteAlphabet == {32, 10, 123, 194, 160, 169, 226, 128, 255}

BytesUpTo(n) == UNION {[1..k -> ByteAlphabet] : k \in 0..n}

\* A whole world state, as a child that works prints it.
LiveWorldState == Bytes("{\"currentDay\":5,\"currentHour\":3,\"npcs\":[]}")

PureInit ==
    /\ cwd = "nested"
    /\ running = FALSE
    /\ lockCount = 0
    /\ log = <<>>
    /\ \E c \in Callers :
         /\ pc = [d \in Callers |-> IF d = c THEN "matching" ELSE "idle"]
         /\ op = [d \in Callers |-> IF d = c THEN "get_world_state" ELSE "none"]
         /\ \E o \in {LaunchFailed}
                     \cup {Exited(out, err, code) :
                             out \in BytesUpTo(MaxBytes) \cup {LiveWorldState},
                             err \in ChildStderrs,
                             code \in ExitCodes} :
                output = [d \in Callers |-> IF d = c THEN o ELSE NoOutput]
    /\ ret = [c \in Callers |-> NoResult]

PureNext == \E c \in Callers : GwsMatch(c)

PureSpec == PureInit /\ [][PureNext]_vars

(***************************************************************************)
(* Reading a returned string as structured data: JSON with objects,        *)
(* arrays, strings without escapes and unsigned integers.                  *)
(***************************************************************************)
JNum(n) == [t |-> "num", n |-> n]
JStr(b) == [t |-> "str", s |-> b]
JArr(items) == [t |-> "arr", items |-> items]
JObj(members) == [t |-> "obj", members |-> members]
JsonError == [t |-> "error"]

Parsed(v, next) == [v |-> v, next |-> next]
Failed == [v |-> JsonError, next |-> 0]

JsonWs(b) == b \in {32, 10, 13, 9}
IsDigit(b) == b \in 48..57

RECURSIVE SkipWs(_, _)
SkipWs(s, i) == IF i <= Len(s) /\ JsonWs(s[i]) THEN SkipWs(s, i + 1) ELSE i

\* The index of the quote that closes a string whose text starts at i; 0 if
\* there is none before an escape or a control character.
RECURSIVE StringEnd(_, _)
StringEnd(s, i) ==
    IF i > Len(s) THEN 0
    ELSE IF s[i] = 34 THEN i
    ELSE IF s[i] = 92 \/ s[i] < 32 THEN 0
    ELSE StringEnd(s, i + 1)

RECURSIVE DigitsEnd(_, _)
DigitsEnd(s, i) == IF i <= Len(s) /\ IsDigit(s[i]) THEN DigitsEnd(s, i + 1) ELSE i

RECURSIVE Decimal(_)
Decimal(ds) ==
    IF ds = <<>> THEN 0
    ELSE Decimal(SubSeq(ds, 1, Len(ds) - 1)) * 10 + (ds[Len(ds)] - 48)

RECURSIVE ParseValue(_, _)
RECURSIVE ParseMembers(_, _, _)
RECURSIVE ParseElements(_, _, _)

ParseValue(s, i) ==
    LET j == SkipWs(s, i) IN
    IF j > Len(s) THEN Failed
    ELSE IF s[j] = 123 THEN
        LET k == SkipWs(s, j + 1) IN
        IF k <= Len(s) /\ s[k] = 125
        THEN Parsed(JObj(<<>>), k + 1)
        ELSE ParseMembers(s, k, <<>>)
    ELSE IF s[j] = 91 THEN
        LET k == SkipWs(s, j + 1) IN
        IF k <= Len(s) /\ s[k] = 93
        THEN Parsed(JArr(<<>>), k + 1)
        ELSE ParseElements(s, k, <<>>)
    ELSE IF s[j] = 34 THEN
        LET e == StringEnd(s, j + 1) IN
        IF e = 0 THEN Failed ELSE Parsed(JStr(SubSeq(s, j + 1, e - 1)), e + 1)
    ELSE IF IsDigit(s[j]) THEN
        LET e == DigitsEnd(s, j) IN
        IF s[j] = 48 /\ e > j + 1
        THEN Failed
        ELSE Parsed(JNum(Decimal(SubSeq(s, j, e - 1))), e)
    ELSE Failed

\* The members of an object from the key at i on, after those in acc.
ParseMembers(s, i, acc) ==
    IF i > Len(s) \/ s[i] # 34 THEN Failed
    ELSE LET e == StringEnd(s, i + 1) IN
    IF e = 0 THEN Failed
    ELSE LET colon == SkipWs(s, e + 1) IN
    IF colon > Len(s) \/ s[colon] # 58 THEN Failed
    ELSE LET r == ParseValue(s, colon + 1) IN
    IF r.next = 0 THEN Failed
    ELSE LET n == SkipWs(s, r.next)
             all == Append(acc, [k |-> SubSeq(s, i + 1, e - 1), v |-> r.v]) IN
    IF n > Len(s) THEN Failed
    ELSE IF s[n] = 125 THEN Parsed(JObj(all), n + 1)
    ELSE IF s[n] = 44 THEN ParseMembers(s, SkipWs(s, n + 1), all)
    ELSE Failed

\* The elements of an array from the value at i on, after those in acc.
ParseElements(s, i, acc) ==
    LET r == ParseValue(s, i) IN
    IF r.next = 0 THEN Failed
    ELSE LET n == SkipWs(s, r.next)
             all == Append(acc, r.v) IN
    IF n > Len(s) THEN Failed
    ELSE IF s[n] = 93 THEN Parsed(JArr(all), n + 1)
    ELSE IF s[n] = 44 THEN ParseElements(s, n + 1, all)
    ELSE Failed

\* The value a whole string denotes, or JsonError.
JsonParse(s) ==
    LET r == ParseValue(s, 1) IN
    IF r.next = 0 \/ SkipWs(s, r.next) <= Len(s) THEN JsonError ELSE r.v

Member(key, v) == [k |-> Bytes(key), v |-> v]

Npc(name, needFood, needSafety) ==
    JObj(<< Member("name", JStr(Bytes(name))),
            Member("needFood", JNum(needFood)),
            Member("needSafety", JNum(needSafety)) >>)

\* The fallback payload as a record: day 1, hour 12, Marcus, Sarah, Emma.
FallbackPayload ==
    JObj(<< Member("currentDay", JNum(1)),
            Member("currentHour", JNum(12)),
            Member("npcs", JArr(<< Npc("Marcus", 45, 80),
                                   Npc("Sarah", 90, 95),
                                   Npc("Emma", 70, 75) >>)) >>)

(***************************************************************************)
(* Vocabulary of the properties.                                           *)
(***************************************************************************)
\* Thread c's last command was o and has returned.
Returned(c, o) == pc[c] = "idle" /\ op[c] = o

GwsDone(c) == Returned(c, "get_world_state")

\* The bytes are UTF-8 text.
IsUtf8(b) == Utf8ValidFrom(b, 1)

\* The bytes are UTF-8 text with no character that is not whitespace
\* (the empty text included).
IsBlank(b) ==
    /\ IsUtf8(b)
    /\ LET cs == chars[b] IN \A i \in 1..Len(cs) : is_whitespace(cs[i])

\* Both threads' last get_world_state saw the same launch outcome and stdout.
SameOutcome(c, d) ==
    /\ output[c].launch = output[d].launch
    /\ output[c].stdout = output[d].stdout

\* The two fixed messages, as the interface documents them.
StartedMessage == Bytes("Simulation started")
StoppedMessage == Bytes("Simulation stopped")

LastLine == log[Len(log)]

\* This step has c run start_simulation / stop_simulation.
StartStep(c) ==
    pc[c] = "idle" /\ op'[c] = "start_simulation" /\ log' = Append(log, StartLine)
StopStep(c) ==
    pc[c] = "idle" /\ op'[c] = "stop_simulation" /\ log' = Append(log, StopLine)

(***************************************************************************)
(* The properties.                                                         *)
(***************************************************************************)

\* C1, as stated: whenever the child launched and its stdout is not empty
\* or all-whitespace -- UTF-8 or not -- get_world_state returns exactly
\* those bytes.
C1_VerbatimAnyBytes ==
    \A c \in Callers :
        (GwsDone(c) /\ output[c].launch = "ok" /\ ~IsBlank(output[c].stdout))
            => ret[c] = Ok(output[c].stdout)

\* C1, amended: stdout that is UTF-8 text and not empty or all Unicode
\* whitespace is returned byte for byte, its leading and trailing
\* whitespace included; stdout that is not UTF-8 is returned as "{}".
C1_VerbatimUtf8 ==
    \A c \in Callers :
        (GwsDone(c) /\ output[c].launch = "ok")
            => /\ (IsUtf8(output[c].stdout) /\ ~IsBlank(output[c].stdout))
                      => ret[c] = Ok(output[c].stdout)
               /\ ~IsUtf8(output[c].stdout) => ret[c] = Ok(<<123, 125>>)

\* C1's case: text inside whitespace came back whole.
C1_Witness ==
    \E c \in Callers :
        /\ GwsDone(c)
        /\ output[c].launch = "ok"
        /\ output[c].stdout = <<32, 123, 10>>
        /\ ret[c] = Ok(<<32, 123, 10>>)

\* C2: a call whose child printed nothing but whitespace and a call whose
\* child could not be launched return the same string.
C2_SameFallbackString ==
    \A c, d \in Callers :
        ( /\ GwsDone(c) /\ output[c].launch = "ok" /\ IsBlank(output[c].stdout)
          /\ GwsDone(d) /\ output[d].launch = "failed" )
            => ret[c] = ret[d]

\* C3: when the launch fails, get_world_state returns Ok of a text that
\* reads as day 1, hour 12 and the npcs Marcus (45, 80), Sarah (90, 95),
\* Emma (70, 75), in that order.
C3_LaunchFailureFallback ==
    \A c \in Callers :
        (GwsDone(c) /\ output[c].launch = "failed")
            => /\ ret[c].kind = "Ok"
               /\ JsonParse(ret[c].val) = FallbackPayload

\* C3's case: a call whose launch failed has returned.
C3_Witness ==
    \E c \in Callers :
        GwsDone(c) /\ output[c].launch = "failed" /\ ret[c].kind = "Ok"

\* C4: no invocation aborts and none returns an error, whatever the working
\* directory, the launch and the child's output.
C4_AlwaysSucceeds ==
    \A c \in Callers : pc[c] # "panicked" /\ ret[c].kind # "Err"

\* C5: whatever came before, start_simulation returns Ok("Simulation
\* started") and stop_simulation returns Ok("Simulation stopped").
C5_FixedMessages ==
    \A c \in Callers :
        /\ Returned(c, "start_simulation") => ret[c] = Ok(StartedMessage)
        /\ Returned(c, "stop_simulation") => ret[c] = Ok(StoppedMessage)

\* C5's case: a stop that no start preceded has returned, while the other
\* thread is inside get_world_state.
C5_Witness ==
    \E c, d \in Callers :
        /\ Returned(c, "stop_simulation")
        /\ log = <<StopLine>>
        /\ ret[c].kind = "Ok"
        /\ op[d] = "get_world_state"

\* C6: a start that follows a start (a stop that follows a stop) returns
\* what the earlier one returned and leaves the flag and its lock as they
\* were.
C6_Idempotent ==
    [][ \A c, d \in Callers :
          /\ ( /\ StartStep(c)
               /\ op[d] = "start_simulation"
               /\ Len(log) > 0 /\ LastLine = StartLine )
                 => /\ ret'[c] = ret[d]
                    /\ <<running, lockCount>>' = <<running, lockCount>>
          /\ ( /\ StopStep(c)
               /\ op[d] = "stop_simulation"
               /\ Len(log) > 0 /\ LastLine = StopLine )
                 => /\ ret'[c] = ret[d]
                    /\ <<running, lockCount>>' = <<running, lockCount>>
      ]_vars

\* C6's case: one thread has started twice in a row, the other did nothing.
C6_Witness ==
    \E c \in Callers :
        /\ Returned(c, "start_simulation")
        /\ log = <<StartLine, StartLine>>
        /\ \A d \in Callers \ {c} : op[d] = "none"

\* C7: the flag is false, and its lock was never taken, in every state.
C7_FlagNeverSet ==
    running = FALSE /\ lockCount = 0

\* C7's case: a start and a stop have run and a get_world_state has
\* returned.
C7_Witness ==
    /\ log = <<StartLine, StopLine>>
    /\ \E c \in Callers : GwsDone(c) /\ ret[c].kind = "Ok"
    /\ running = FALSE

\* C8: two get_world_state calls with the same launch outcome and the same
\* stdout returned the same result, whatever ran before either.
C8_ResultFromOutcomeOnly ==
    \A c, d \in Callers :
        (GwsDone(c) /\ GwsDone(d) /\ SameOutcome(c, d)) => ret[c] = ret[d]

\* C8's case: two threads got the same non-empty stdout, with a start and
\* a stop among the commands run so far.
C8_Witness ==
    \E c, d \in Callers :
        /\ c # d
        /\ GwsDone(c) /\ GwsDone(d) /\ SameOutcome(c, d)
        /\ output[c].launch = "ok" /\ output[c].stdout # <<>>
        /\ log = <<StartLine, StopLine>>

\* C9: once the child has exited or the launch has failed, the call
\* returns; while the child runs the call can only go on waiting or see it
\* exit; and no result exists before the child exited or the launch failed.
C9_BlocksUntilExit ==
    /\ \A c \in Callers :
          (pc[c] = "matching") ~> (pc[c] = "idle" /\ ret[c].kind = "Ok")
    /\ [][ \A c \in Callers :
             /\ pc[c] = "waiting" => pc'[c] \in {"waiting", "matching"}
             /\ pc[c] \in {"spawn", "waiting"} => ret'[c] = NoResult
         ]_vars

\* C9's case: one call has returned after its child exited while the other
\* still waits for its child.
C9_Witness ==
    \E c, d \in Callers :
        /\ GwsDone(c) /\ output[c].launch = "ok" /\ ret[c].kind = "Ok"
        /\ pc[d] = "waiting"

\* C10, as stated: a child that exits non-zero with stdout that is not empty
\* or all-whitespace has that stdout returned.
C10_NonZeroVerbatimAnyBytes ==
    \A c \in Callers :
        ( /\ GwsDone(c) /\ output[c].launch = "ok" /\ output[c].code # 0
          /\ ~IsBlank(output[c].stdout) )
            => ret[c] = Ok(output[c].stdout)

\* C10, amended: for a child that exits non-zero, whatever its stderr,
\* stdout that is UTF-8 text and not blank is returned as it is, stdout that
\* is not UTF-8 gives "{}", and blank stdout gives Ok of a text that reads
\* as the fallback payload.
C10_ExitStatusIgnored ==
    \A c \in Callers :
        (GwsDone(c) /\ output[c].launch = "ok" /\ output[c].code # 0)
            => /\ ret[c].kind = "Ok"
               /\ (IsUtf8(output[c].stdout) /\ ~IsBlank(output[c].stdout))
                      => ret[c].val = output[c].stdout
               /\ ~IsUtf8(output[c].stdout) => ret[c].val = <<123, 125>>
               /\ IsBlank(output[c].stdout)
                      => JsonParse(ret[c].val) = FallbackPayload

\* C10's case: a child failed noisily but printed text, which came back.
C10_Witness ==
    \E c \in Callers :
        /\ GwsDone(c)
        /\ output[c].launch = "ok"
        /\ output[c].code # 0
        /\ output[c].stderr # <<>>
        /\ output[c].stdout = <<123>>
        /\ ret[c] = Ok(<<123>>)

====
